---- MODULE Spec2Model ----
(***************************************************************************)
(* A model of src/assistant.py: one Streamlit session of the legal         *)
(* assistant.  The session state (user_thread, assistant_id, messages),    *)
(* the script executions of main, the steps of get_agent_response and of   *)
(* handle_tool_outputs, and the remote assistant service as the code sees  *)
(* it: every remote call either answers or raises, runs advance on their   *)
(* own, and the service keeps the thread's messages and the runs.          *)
(***************************************************************************)
EXTENDS Naturals, Integers, Sequences, FiniteSets, TLC

(* ----------------------------- bounds ---------------------------------- *)
\* tool calls a run requests in one requires_action step
MaxCalls == 2
\* requires_action steps of one run
MaxRounds == 1

(* --------------------------- vocabulary -------------------------------- *)
\* 'user_thread' not in st.session_state
NoThread == 0
\* 'assistant_id' not in st.session_state
NoAssistant == "no_assistant_id"
\* the texts the user types in the chat input, each typed once in a session, in
\* any order (a text is a sequence of pieces)
Prompts == {<<"p1">>, <<"p2">>}

\* run statuses of the remote service
PollingStatuses == {"queued", "in_progress"}
FailedStatuses == {"failed", "cancelled", "expired"}
ActiveStatuses == {"queued", "in_progress", "requires_action"}

\* Python's None for the local variable run (handle_tool_outputs returns None)
NoRun == [id |-> 0, status |-> "None", tool_calls |-> <<>>]

\* the str(e) of the exceptions the code can meet
ApiError == "remote call failed"
NoneRunError == "'NoneType' object has no attribute 'status'"

(* ------------------------ tool registry -------------------------------- *)
\* available_functions: tool name -> callable
available_functions == [n \in {"scrape_content"} |-> "scrape_content_fn"]

NotFound == "no_function"

\* mutant of Lookup: an unregistered name falls back to the only tool
LookupWithDefault(name) == "scrape_content_fn"

\* available_functions.get(function_name)
Lookup(name) ==
    IF name \in DOMAIN available_functions THEN available_functions[name] ELSE NotFound

BadJson == [ok |-> FALSE, value |-> <<>>]

\* json.loads(call.function.arguments): the keyword arguments, or a JSONDecodeError
Loads(text) ==
    IF text = "{\"url\": \"u\"}"
    THEN [ok |-> TRUE, value |-> <<"url", "u">>]
    ELSE BadJson

\* json.dumps(output)
Dumps(output) == <<"json">> \o output

\* what one HTTP GET to the proxy can end in
ProxyOutcomes == {"200", "non200", "Timeout", "TooManyRedirects", "RequestException", "other_exception"}

NoneResult == <<"None">>

\* scrape_content(url): the result dict, None, or an exception that is no RequestException
scrape_content(kwargs, proxy) ==
    IF proxy = "200"
    THEN [raised |-> FALSE, value |-> <<"content_and_links_of", kwargs[2]>>]
    ELSE IF proxy \in {"non200", "Timeout", "TooManyRedirects", "RequestException"}
    THEN [raised |-> FALSE, value |-> NoneResult]
    ELSE [raised |-> TRUE, value |-> <<proxy>>]

NoContentText(tool_name) == <<"No content returned from ", tool_name>>
ToolErrorText(tool_name, e) == <<"Error occurred in ", tool_name, ": ">> \o e

\* func(**kwargs) for a registered callable
CallFunction(fn, kwargs, proxy) == scrape_content(kwargs, proxy)

\* safe_tool_call(func, tool_name, **kwargs)
safe_tool_call(fn, tool_name, kwargs, proxy) ==
    LET r == CallFunction(fn, kwargs, proxy)
    IN  IF r.raised THEN ToolErrorText(tool_name, r.value)
        ELSE IF r.value = NoneResult THEN NoContentText(tool_name)
        ELSE r.value

(* ------------------------ message contents ----------------------------- *)
TextBlock(v, anns) == [type |-> "text", value |-> v, annotations |-> anns, file_id |-> "-"]
ImageBlock(f) == [type |-> "image_file", value |-> "-", annotations |-> <<>>, file_id |-> f]
FilePath(f, path) == [type |-> "file_path", file_id |-> f, text |-> path]
Citation(f) == [type |-> "file_citation", file_id |-> f, text |-> <<"cite">>]

\* the contents an assistant message of the service can have
AssistantContents ==
    { <<TextBlock("answer", <<Citation("f0")>>)>>,
      <<TextBlock("report", <<FilePath("f1", <<"sandbox:", "mnt", "out.csv">>)>>), ImageBlock("f2")>> }

\* the content the service stores for a user message
UserContent(prompt) == <<TextBlock(prompt[1], <<>>)>>

\* client.files.content(file_id).read()
FileBytes(f) == <<"bytes_of", f>>

\* annotation.text.split('/')[-1]
FileName(path) == path[Len(path)]

NoResponseText == <<"Error: No assistant response">>
ErrorText(e) == <<"Error: ", e>>

\* mutant of ErrorReturn: the lists collected so far are returned with the error
ErrorReturnKeepingLists(e, links, imgs) == <<ErrorText(e), links, imgs>>

\* the except branch of get_agent_response
ErrorReturn(e, links, imgs) == <<ErrorText(e), <<>>, <<>>>>

\* last_message.role == "assistant"
IsAssistantMessage(m) == m.role = "assistant"

\* mutant of LoopContinues: only queued keeps the loop going
LoopContinuesQueuedOnly(r) == r.status = "queued"

\* run.status in ["queued", "in_progress"]
LoopContinues(r) == r.status \in {"queued", "in_progress"}

\* mutant of HasAssistant: the chat does not look for an assistant identifier
HasAssistantAlways(aid) == TRUE

\* 'assistant_id' in st.session_state
HasAssistant(aid) == aid # NoAssistant

\* mutant of ThreadInit: every script execution creates a thread
ThreadInitAlways(thread, fresh) == fresh

\* if 'user_thread' not in st.session_state: ... = client.beta.threads.create()
ThreadInit(thread, fresh) == IF thread = NoThread THEN fresh ELSE thread

\* the sidebar of main: what st.session_state.assistant_id is after it
\*   "none": nothing sets it; "typed": an identifier in the text input;
\*   "created": the Create New Assistant button with uploaded files
SidebarInputs == {"none", "typed", "created"}
Sidebar(aid, input) ==
    CASE input = "typed" -> "asst_typed"
      [] input = "created" -> "asst_created"
      [] OTHER -> aid

(* ------------------------------ state ---------------------------------- *)
VARIABLES
    user_thread,    \* st.session_state.user_thread.id
    assistant_id,   \* st.session_state.assistant_id
    messages,       \* st.session_state.messages
    nextThread,     \* service: the identifier the next created thread gets
    runs,           \* service: the runs created on the thread, by run id
    thread_msgs,    \* service: the messages of the thread, oldest first
    pc,             \* where the script execution is
    prompt,         \* user_message of the current call
    run,            \* get_agent_response's local run
    k,              \* handle_tool_outputs: index of the call being resolved
    tool_outputs,   \* handle_tool_outputs: tool_outputs
    last_message,   \* get_agent_response: last_message
    bidx,           \* get_agent_response: index of the content block walked
    text,           \* get_agent_response: formatted_response_text
    download_links, \* get_agent_response: download_links
    images,         \* get_agent_response: images
    response,       \* what get_agent_response returned to main
    \* history of the current call and session, read by the properties only
    inputs,         \* the chat inputs so far: [prompt, hadId]
    apiThreadIds,   \* thread identifiers passed to the service so far
    failure,        \* str(e) caught by get_agent_response in this call, or "none"
    handled,        \* this loop iteration saw requires_action
    stepCalls,      \* the tool calls of the requires_action step being handled
    invoked,        \* the tool functions invoked in this step: [fn, kwargs]
    nsubmits,       \* submit_tool_outputs calls made in this step
    submitted,      \* the tool_outputs of the last submit_tool_outputs call
    raSeen,         \* requires_action steps seen in this call
    raSubmitted,    \* submit_tool_outputs calls made in this call
    fetched         \* this call listed the thread's messages

vars == <<user_thread, assistant_id, messages, nextThread, runs, thread_msgs, pc,
          prompt, run, k, tool_outputs, last_message, bidx, text, download_links,
          images, response, inputs, apiThreadIds, failure, handled, stepCalls,
          invoked, nsubmits, submitted, raSeen, raSubmitted, fetched>>

sessionVars == <<user_thread, assistant_id, messages, nextThread, inputs>>
remoteVars == <<runs, thread_msgs>>
toolVars == <<k, tool_outputs, stepCalls, invoked, nsubmits, submitted>>
renderVars == <<last_message, bidx, text, download_links, images>>

NoMessage == [role |-> "none", content |-> <<>>, run |-> 0]

Init ==
    /\ user_thread = NoThread
    /\ assistant_id = NoAssistant
    /\ messages = <<>>
    /\ nextThread = 1
    /\ runs = <<>>
    /\ thread_msgs = <<>>
    /\ pc = "idle"
    /\ prompt = <<>>
    /\ run = NoRun
    /\ k = 0
    /\ tool_outputs = <<>>
    /\ last_message = NoMessage
    /\ bidx = 0
    /\ text = <<>>
    /\ download_links = <<>>
    /\ images = <<>>
    /\ response = <<<<>>, <<>>, <<>>>>
    /\ inputs = <<>>
    /\ apiThreadIds = {}
    /\ failure = "none"
    /\ handled = FALSE
    /\ stepCalls = <<>>
    /\ invoked = <<>>
    /\ nsubmits = 0
    /\ submitted = <<>>
    /\ raSeen = 0
    /\ raSubmitted = 0
    /\ fetched = FALSE

(* --------------------------- the service ------------------------------- *)
RunIds == 1..Len(runs)

\* the run object a remote call returns; calls is its
\* required_action.submit_tool_outputs.tool_calls
RunObject(rs, r, calls) == [id |-> r, status |-> rs[r].status, tool_calls |-> calls]

\* the kinds of tool call a run can request
CallKinds ==
    { [name |-> "scrape_content", arguments |-> "{\"url\": \"u\"}"],
      [name |-> "scrape_content", arguments |-> "{not json"],
      [name |-> "unknown_tool", arguments |-> "{\"url\": \"u\"}"] }

Batches == UNION { [1..n -> CallKinds] : n \in 1..MaxCalls }

\* the tool calls of a requires_action step, with their identifiers
WithIds(batch, round) ==
    [i \in 1..Len(batch) |->
        [id |-> round * MaxCalls + i, name |-> batch[i].name, arguments |-> batch[i].arguments]]

RemoteStart(r) ==
    /\ runs[r].status = "queued"
    /\ runs' = [runs EXCEPT ![r].status = "in_progress"]
    /\ UNCHANGED <<thread_msgs, sessionVars, toolVars, renderVars, pc, prompt, run, response,
                   apiThreadIds, failure, handled, raSeen, raSubmitted, fetched>>

RemotePost(r, c) ==
    /\ runs[r].status = "in_progress"
    /\ ~runs[r].posted
    /\ runs' = [runs EXCEPT ![r].posted = TRUE]
    /\ thread_msgs' = Append(thread_msgs, [role |-> "assistant", content |-> c, run |-> r])
    /\ UNCHANGED <<sessionVars, toolVars, renderVars, pc, prompt, run, response,
                   apiThreadIds, failure, handled, raSeen, raSubmitted, fetched>>

RemoteRequire(r) ==
    /\ runs[r].status = "in_progress"
    /\ runs[r].rounds < MaxRounds
    /\ runs' = [runs EXCEPT ![r].status = "requires_action"]
    /\ UNCHANGED <<thread_msgs, sessionVars, toolVars, renderVars, pc, prompt, run, response,
                   apiThreadIds, failure, handled, raSeen, raSubmitted, fetched>>

RemoteComplete(r) ==
    /\ runs[r].status = "in_progress"
    /\ runs[r].posted
    /\ runs' = [runs EXCEPT ![r].status = "completed"]
    /\ UNCHANGED <<thread_msgs, sessionVars, toolVars, renderVars, pc, prompt, run, response,
                   apiThreadIds, failure, handled, raSeen, raSubmitted, fetched>>

RemoteFail(r, s) ==
    /\ runs[r].status \in ActiveStatuses
    /\ runs' = [runs EXCEPT ![r].status = s]
    /\ UNCHANGED <<thread_msgs, sessionVars, toolVars, renderVars, pc, prompt, run, response,
                   apiThreadIds, failure, handled, raSeen, raSubmitted, fetched>>

\* The service advances its runs at any time.  The steps of a call that neither read
\* nor write the service's state commute with the service's steps, so the service
\* is let move where the code is about to look at it or to change it.
ServicePoints == {"append_msg", "create_run", "poll", "submit", "fetch"}

\* A run created by an earlier call is seen by the code only through the messages
\* it posts; the run of the current call is the last one created.
Polled(r) == r = Len(runs) /\ pc \notin {"append_msg", "create_run"}

RemoteStep ==
    /\ pc \in ServicePoints
    /\ \E r \in RunIds :
        \/ RemoteStart(r)
        \/ \E c \in AssistantContents : RemotePost(r, c)
        \/ Polled(r) /\ RemoteRequire(r)
        \/ RemoteComplete(r)
        \/ \E s \in FailedStatuses : RemoteFail(r, s)

(* ------------------------- script executions --------------------------- *)
\* the locals of handle_tool_outputs end with it
ClearStep ==
    /\ k' = 0
    /\ tool_outputs' = <<>>
    /\ stepCalls' = <<>>
    /\ invoked' = <<>>
    /\ nsubmits' = 0
    /\ submitted' = <<>>

\* the locals of get_agent_response and of main's chat branch end with them
ClearCall ==
    /\ ClearStep
    /\ prompt' = <<>>
    /\ run' = NoRun
    /\ last_message' = NoMessage
    /\ bidx' = 0
    /\ text' = <<>>
    /\ download_links' = <<>>
    /\ images' = <<>>
    /\ response' = <<<<>>, <<>>, <<>>>>
    /\ failure' = "none"
    /\ handled' = FALSE
    /\ raSeen' = 0
    /\ raSubmitted' = 0
    /\ fetched' = FALSE

\* lines 20-22 run at the top of every script execution
ScriptTop ==
    /\ user_thread' = ThreadInit(user_thread, nextThread)
    /\ nextThread' = IF user_thread' = user_thread THEN nextThread ELSE nextThread + 1

\* a script execution with no chat input: main runs the sidebar and redraws
Rerun(input) ==
    /\ pc = "idle"
    /\ ScriptTop
    /\ assistant_id' = Sidebar(assistant_id, input)
    /\ UNCHANGED <<messages, inputs, remoteVars, toolVars, renderVars, pc, prompt, run,
                   response, apiThreadIds, failure, handled, raSeen, raSubmitted, fetched>>

\* a script execution with a chat input, up to the call of get_agent_response
ChatInput(input, p) ==
    /\ pc = "idle"
    /\ \A i \in 1..Len(inputs) : inputs[i].prompt # p
    /\ ScriptTop
    /\ assistant_id' = Sidebar(assistant_id, input)
    /\ messages' = Append(messages, [role |-> "user", content |-> p])
    /\ inputs' = Append(inputs, [prompt |-> p, hadId |-> assistant_id' # NoAssistant])
    /\ pc' = IF HasAssistant(assistant_id') THEN "append_msg" ELSE "idle"
    /\ prompt' = IF HasAssistant(assistant_id') THEN p ELSE <<>>
    /\ UNCHANGED <<run, toolVars, renderVars, response, failure, handled, raSeen,
                   raSubmitted, fetched>>
    /\ UNCHANGED <<remoteVars, apiThreadIds>>

(* ------------------------- get_agent_response -------------------------- *)
\* except Exception as e: return f"Error: {str(e)}", [], []
Fail(e) ==
    /\ response' = ErrorReturn(e, download_links, images)
    /\ failure' = e
    /\ pc' = "main_append"

\* client.beta.threads.messages.create(thread_id=..., role="user", content=user_message)
AppendUserMessage ==
    /\ pc = "append_msg"
    /\ apiThreadIds' = apiThreadIds \cup {user_thread}
    /\ thread_msgs' = Append(thread_msgs,
                             [role |-> "user", content |-> UserContent(prompt), run |-> 0])
    /\ pc' = "create_run"
    /\ UNCHANGED <<sessionVars, runs, toolVars, renderVars, prompt, run, response,
                   failure, handled, raSeen, raSubmitted, fetched>>

AppendUserMessageRaises ==
    /\ pc = "append_msg"
    /\ apiThreadIds' = apiThreadIds \cup {user_thread}
    /\ Fail(ApiError)
    /\ UNCHANGED <<sessionVars, remoteVars, toolVars, renderVars, prompt, run,
                   handled, raSeen, raSubmitted, fetched>>

\* run = client.beta.threads.runs.create(thread_id=..., assistant_id=assistant_id)
CreateRun ==
    /\ pc = "create_run"
    /\ apiThreadIds' = apiThreadIds \cup {user_thread}
    /\ runs' = Append(runs, [status |-> "queued", rounds |-> 0, posted |-> FALSE])
    /\ run' = RunObject(runs', Len(runs'), <<>>)
    /\ pc' = "loop"
    /\ UNCHANGED <<sessionVars, thread_msgs, toolVars, renderVars, prompt, response,
                   failure, handled, raSeen, raSubmitted, fetched>>

CreateRunRaises ==
    /\ pc = "create_run"
    /\ apiThreadIds' = apiThreadIds \cup {user_thread}
    /\ Fail(ApiError)
    /\ UNCHANGED <<sessionVars, remoteVars, toolVars, renderVars, prompt, run,
                   handled, raSeen, raSubmitted, fetched>>

\* while run.status in ["queued", "in_progress"]:
LoopCheck ==
    /\ pc = "loop"
    /\ run # NoRun
    /\ pc' = IF LoopContinues(run) THEN "poll" ELSE "fetch"
    /\ UNCHANGED <<sessionVars, remoteVars, toolVars, renderVars, prompt, run, response,
                   apiThreadIds, failure, handled, raSeen, raSubmitted, fetched>>

\* run is None: run.status raises AttributeError
LoopCheckNoRun ==
    /\ pc = "loop"
    /\ run = NoRun
    /\ Fail(NoneRunError)
    /\ UNCHANGED <<sessionVars, remoteVars, toolVars, renderVars, prompt, run,
                   apiThreadIds, handled, raSeen, raSubmitted, fetched>>

\* run = client.beta.threads.runs.retrieve(...); if run.status == "requires_action": ...
\* batch: the tool calls the run asks for, when it is in requires_action
Poll(batch) ==
    /\ pc = "poll"
    /\ apiThreadIds' = apiThreadIds \cup {user_thread}
    /\ run' = RunObject(runs, run.id,
                        IF runs[run.id].status = "requires_action"
                        THEN WithIds(batch, runs[run.id].rounds) ELSE <<>>)
    /\ IF run'.status = "requires_action"
       THEN /\ pc' = IF Len(run'.tool_calls) = 0 THEN "submit" ELSE "tools"
            /\ handled' = TRUE
            /\ raSeen' = raSeen + 1
            /\ k' = 1
            /\ tool_outputs' = <<>>
            /\ stepCalls' = run'.tool_calls
            /\ invoked' = <<>>
            /\ nsubmits' = 0
            /\ submitted' = <<>>
       ELSE /\ pc' = "sleep"
            /\ handled' = FALSE
            /\ UNCHANGED <<raSeen, toolVars>>
    /\ UNCHANGED <<sessionVars, remoteVars, renderVars, prompt, response, failure,
                   raSubmitted, fetched>>

PollRaises ==
    /\ pc = "poll"
    /\ apiThreadIds' = apiThreadIds \cup {user_thread}
    /\ Fail(ApiError)
    /\ UNCHANGED <<sessionVars, remoteVars, toolVars, renderVars, prompt, run,
                   handled, raSeen, raSubmitted, fetched>>

(* ------------------------- handle_tool_outputs ------------------------- *)
\* except Exception as e: ...; return None   (back in the loop: run = None)
HandleAbort ==
    /\ run' = NoRun
    /\ pc' = "sleep"

\* if not function: raise ValueError(...)
ToolNotFound ==
    /\ pc = "tools"
    /\ Lookup(run.tool_calls[k].name) = NotFound
    /\ HandleAbort
    /\ UNCHANGED <<sessionVars, remoteVars, toolVars, renderVars, prompt, response,
                   apiThreadIds, failure, handled, raSeen, raSubmitted, fetched>>

\* arguments = json.loads(call.function.arguments) raises
ToolBadArguments ==
    /\ pc = "tools"
    /\ Lookup(run.tool_calls[k].name) # NotFound
    /\ ~Loads(run.tool_calls[k].arguments).ok
    /\ HandleAbort
    /\ UNCHANGED <<sessionVars, remoteVars, toolVars, renderVars, prompt, response,
                   apiThreadIds, failure, handled, raSeen, raSubmitted, fetched>>

\* output = safe_tool_call(function, function_name, **arguments); tool_outputs.append(...)
ToolInvoke(proxy) ==
    /\ pc = "tools"
    /\ LET call == run.tool_calls[k]
           fn == Lookup(call.name)
           args == Loads(call.arguments)
       IN  /\ fn # NotFound
           /\ args.ok
           /\ tool_outputs' = Append(tool_outputs,
                  [tool_call_id |-> call.id,
                   output |-> Dumps(safe_tool_call(fn, call.name, args.value, proxy))])
           /\ invoked' = Append(invoked, [fn |-> fn, kwargs |-> args.value])
    /\ k' = k + 1
    /\ pc' = IF k' > Len(run.tool_calls) THEN "submit" ELSE "tools"
    /\ UNCHANGED <<sessionVars, remoteVars, renderVars, prompt, run, response, stepCalls,
                   nsubmits, submitted, apiThreadIds, failure, handled, raSeen,
                   raSubmitted, fetched>>

\* return client.beta.threads.runs.submit_tool_outputs(thread_id, run_id, tool_outputs)
SubmitToolOutputs ==
    /\ pc = "submit"
    /\ runs[run.id].status = "requires_action"
    /\ apiThreadIds' = apiThreadIds \cup {user_thread}
    /\ nsubmits' = nsubmits + 1
    /\ raSubmitted' = raSubmitted + 1
    /\ submitted' = tool_outputs
    /\ runs' = [runs EXCEPT ![run.id].status = "queued", ![run.id].rounds = @ + 1]
    /\ run' = RunObject(runs', run.id, <<>>)
    /\ pc' = "sleep"
    /\ UNCHANGED <<sessionVars, thread_msgs, renderVars, prompt, response, k, tool_outputs,
                   stepCalls, invoked, failure, handled, raSeen, fetched>>

\* the submit call raises: caught in handle_tool_outputs, which returns None
SubmitToolOutputsRaises ==
    /\ pc = "submit"
    /\ apiThreadIds' = apiThreadIds \cup {user_thread}
    /\ nsubmits' = nsubmits + 1
    /\ raSubmitted' = raSubmitted + 1
    /\ submitted' = tool_outputs
    /\ HandleAbort
    /\ UNCHANGED <<sessionVars, remoteVars, renderVars, prompt, response, k, tool_outputs,
                   stepCalls, invoked, failure, handled, raSeen, fetched>>

\* await asyncio.sleep(1)
Sleep ==
    /\ pc = "sleep"
    /\ pc' = "loop"
    /\ handled' = FALSE
    /\ ClearStep
    /\ UNCHANGED <<sessionVars, remoteVars, renderVars, prompt, run, response,
                   apiThreadIds, failure, raSeen, raSubmitted, fetched>>

(* ----------------------- the final message ----------------------------- *)
\* last_message = client.beta.threads.messages.list(thread_id=..., limit=1).data[0]
FetchLast ==
    /\ pc = "fetch"
    /\ apiThreadIds' = apiThreadIds \cup {user_thread}
    /\ fetched' = TRUE
    /\ last_message' = thread_msgs[Len(thread_msgs)]
    /\ IF IsAssistantMessage(last_message')
       THEN /\ pc' = "render"
            /\ bidx' = 1
            /\ text' = <<>>
       ELSE /\ pc' = "return"
            /\ bidx' = 0
            /\ text' = NoResponseText
    /\ download_links' = <<>>
    /\ images' = <<>>
    /\ UNCHANGED <<sessionVars, remoteVars, toolVars, prompt, run, response, failure,
                   handled, raSeen, raSubmitted>>

FetchLastRaises ==
    /\ pc = "fetch"
    /\ apiThreadIds' = apiThreadIds \cup {user_thread}
    /\ fetched' = TRUE
    /\ Fail(ApiError)
    /\ UNCHANGED <<sessionVars, remoteVars, toolVars, renderVars, prompt, run,
                   handled, raSeen, raSubmitted>>

\* the file_path annotations of a text block
FilePaths(anns) == SelectSeq(anns, LAMBDA a : a.type = "file_path")

\* download_links.append((file_name, file_content)) for each file_path annotation
LinksOf(anns) ==
    [i \in 1..Len(FilePaths(anns)) |->
        <<FileName(FilePaths(anns)[i].text), FileBytes(FilePaths(anns)[i].file_id)>>]

\* the block makes the code call client.files.content
NeedsFile(block) ==
    \/ block.type = "image_file"
    \/ block.type = "text" /\ Len(FilePaths(block.annotations)) > 0

\* one pass of: for content in last_message.content
RenderBlock ==
    /\ pc = "render"
    /\ LET block == last_message.content[bidx]
       IN  CASE block.type = "text" ->
                  /\ text' = text \o <<block.value>>
                  /\ download_links' = download_links \o LinksOf(block.annotations)
                  /\ images' = images
             [] block.type = "image_file" ->
                  /\ images' = Append(images, <<<<block.file_id, ".png">>, FileBytes(block.file_id)>>)
                  /\ text' = text \o <<"[Image generated: ", block.file_id, ".png]\n">>
                  /\ download_links' = download_links
             [] OTHER ->
                  UNCHANGED <<text, download_links, images>>
    /\ bidx' = bidx + 1
    /\ pc' = IF bidx' > Len(last_message.content) THEN "return" ELSE "render"
    /\ UNCHANGED <<sessionVars, remoteVars, toolVars, last_message, prompt, run, response,
                   apiThreadIds, failure, handled, raSeen, raSubmitted, fetched>>

\* client.files.content(file_id) raises while the block is walked
RenderBlockRaises ==
    /\ pc = "render"
    /\ NeedsFile(last_message.content[bidx])
    /\ Fail(ApiError)
    /\ UNCHANGED <<sessionVars, remoteVars, toolVars, renderVars, prompt, run,
                   apiThreadIds, handled, raSeen, raSubmitted, fetched>>

\* return formatted_response_text, download_links, images
Return ==
    /\ pc = "return"
    /\ response' = <<text, download_links, images>>
    /\ pc' = "main_append"
    /\ UNCHANGED <<sessionVars, remoteVars, toolVars, renderVars, prompt, run,
                   apiThreadIds, failure, handled, raSeen, raSubmitted, fetched>>

\* st.session_state.messages.append({"role": "assistant", "content": response, ...})
MainAppend ==
    /\ pc = "main_append"
    /\ messages' = Append(messages, [role |-> "assistant", content |-> response[1],
                                     downloads |-> response[2], images |-> response[3]])
    /\ pc' = "idle"
    /\ ClearCall
    /\ UNCHANGED <<user_thread, assistant_id, nextThread, inputs, remoteVars, apiThreadIds>>

(* --------------------------- specification ----------------------------- *)
\* the steps of one call of get_agent_response and of main after it
CallStep ==
    \/ AppendUserMessage
    \/ AppendUserMessageRaises
    \/ CreateRun
    \/ CreateRunRaises
    \/ LoopCheck
    \/ LoopCheckNoRun
    \/ \E batch \in Batches : Poll(batch)
    \/ PollRaises
    \/ ToolNotFound
    \/ ToolBadArguments
    \/ \E proxy \in ProxyOutcomes : ToolInvoke(proxy)
    \/ SubmitToolOutputs
    \/ SubmitToolOutputsRaises
    \/ Sleep
    \/ FetchLast
    \/ FetchLastRaises
    \/ RenderBlock
    \/ RenderBlockRaises
    \/ Return
    \/ MainAppend

UserStep ==
    \/ \E input \in SidebarInputs : Rerun(input)
    \/ \E input \in {"none", "typed"}, p \in Prompts : ChatInput(input, p)

Next == UserStep \/ CallStep \/ RemoteStep

Spec == Init /\ [][Next]_vars

\* the event loop runs the call's next step; the polled run does not stay
\* queued or in_progress forever
PolledRunStep ==
    /\ pc \in ServicePoints
    /\ run # NoRun
    /\ \/ RemoteStart(run.id)
       \/ \E c \in AssistantContents : RemotePost(run.id, c)
       \/ RemoteRequire(run.id)
       \/ RemoteComplete(run.id)
       \/ \E s \in FailedStatuses : RemoteFail(run.id, s)

LiveSpec == Init /\ [][Next]_vars /\ WF_vars(CallStep) /\ SF_vars(PolledRunStep)

(* ------------------------------ claims --------------------------------- *)
\* the state right after handle_tool_outputs returned for a requires_action step
AfterHandle == pc = "sleep" /\ handled

\* the state right after get_agent_response returned to main
AfterReturn == pc = "main_append"

\* C1: every requires_action step the poll sees ends with one submit_tool_outputs
\* call whose batch holds exactly one output per requested tool call id, in
\* whatever way the tools failed.
C1_EveryStepSubmitsOneOutputPerCall ==
    AfterHandle =>
        /\ nsubmits = 1
        /\ Len(submitted) = Len(stepCalls)
        /\ \A i \in 1..Len(stepCalls) : submitted[i].tool_call_id = stepCalls[i].id

\* C2: in a requires_action step the functions invoked are, in request order, the
\* functions registered under the calls' names with the parsed arguments and
\* nothing else; there is at most one submission, made after every call was
\* resolved and holding one output per call; and the final message is fetched
\* only after every step seen was submitted and the run left queued and in_progress.
C2_InvokeSubmitThenFetch ==
    /\ Len(invoked) <= Len(stepCalls)
    /\ \A i \in 1..Len(invoked) :
          /\ stepCalls[i].name \in DOMAIN available_functions
          /\ invoked[i].fn = available_functions[stepCalls[i].name]
          /\ Loads(stepCalls[i].arguments).ok
          /\ invoked[i].kwargs = Loads(stepCalls[i].arguments).value
    /\ nsubmits <= 1
    /\ nsubmits = 1 =>
          /\ Len(invoked) = Len(stepCalls)
          /\ Len(submitted) = Len(stepCalls)
          /\ \A i \in 1..Len(stepCalls) : submitted[i].tool_call_id = stepCalls[i].id
    /\ fetched =>
          /\ raSubmitted = raSeen
          /\ run # NoRun
          /\ run.status \notin PollingStatuses

\* a run asked for tool calls, got them submitted, completed, and its final message
\* was fetched
C2_Witness ==
    /\ fetched
    /\ raSeen >= 1
    /\ raSubmitted = raSeen
    /\ run.status = "completed"
    /\ last_message.role = "assistant"

\* C3: a tool call whose name is not registered gets a result: an output for its
\* id, a text that names the unknown tool.
C3_UnknownToolGetsFailureText ==
    AfterHandle =>
        \A i \in 1..Len(stepCalls) :
            (i <= k /\ stepCalls[i].name \notin DOMAIN available_functions) =>
                \E j \in 1..Len(tool_outputs) :
                    /\ tool_outputs[j].tool_call_id = stepCalls[i].id
                    /\ \E n \in 1..Len(tool_outputs[j].output) :
                          tool_outputs[j].output[n] = stepCalls[i].name

\* C4: whatever step of get_agent_response fails, the call returns the triple
\* (error text, empty download list, empty image list) to main, and main appends
\* exactly one assistant turn with that error text and is idle again.
C4_FailureBecomesErrorTurn ==
    /\ [](failure # "none" =>
            /\ pc = "main_append"
            /\ response = <<ErrorText(failure), <<>>, <<>>>>)
    /\ [][(pc = "main_append" /\ failure # "none") =>
            /\ pc' = "idle"
            /\ messages' = Append(messages, [role |-> "assistant",
                                             content |-> ErrorText(failure),
                                             downloads |-> <<>>, images |-> <<>>])]_vars

\* handle_tool_outputs returned no run, and the call returned the error triple
C4_Witness ==
    /\ pc = "main_append"
    /\ failure = NoneRunError
    /\ raSeen = 1
    /\ response = <<ErrorText(NoneRunError), <<>>, <<>>>>

\* C5: a tool call whose scrape returned nothing (any failure of the proxy request)
\* still has its output, the "No content returned" text, in a batch submitted to
\* the run.
C5_FailedScrapeOutputIsSubmitted ==
    AfterHandle =>
        \A j \in 1..Len(tool_outputs) :
            tool_outputs[j].output = Dumps(NoContentText("scrape_content")) =>
                /\ nsubmits = 1
                /\ \E i \in 1..Len(submitted) : submitted[i] = tool_outputs[j]

\* C6: at most one run of the session is queued, in_progress or requires_action.
C6_AtMostOneActiveRun ==
    Cardinality({r \in RunIds : runs[r].status \in ActiveStatuses}) <= 1

\* C7: the thread identifier is set by the first script execution, is never
\* replaced or cleared afterwards, and is the identifier of every call to the
\* service that names a thread.
C7_OneThreadPerSession ==
    /\ [](/\ apiThreadIds \subseteq {user_thread}
          /\ NoThread \notin apiThreadIds
          /\ (pc # "idle" \/ messages # <<>> \/ assistant_id # NoAssistant)
                => user_thread # NoThread)
    /\ [][user_thread # NoThread => user_thread' = user_thread]_vars
    /\ [][user_thread = NoThread => user_thread' # NoThread]_vars

\* the second chat turn of a session, after an assistant was created, has just
\* submitted tool outputs on the session's thread
C7_Witness ==
    /\ Len(inputs) = 2
    /\ assistant_id = "asst_created"
    /\ AfterHandle
    /\ nsubmits = 1
    /\ apiThreadIds = {user_thread}

\* C8 as claimed: the call returns only after the polled run left queued and
\* in_progress.
C8_ReturnsOnlyWhenRunLeftPolling ==
    (AfterReturn /\ run # NoRun) => run.status \notin PollingStatuses

\* C8 as amended: the loop goes on exactly while the last status seen is queued or
\* in_progress, every way back to the loop head passes the sleep, a call that
\* returns while the run is still queued or in_progress returns the error triple
\* of a remote call that raised, and every call returns when the polled run does
\* not stay queued or in_progress forever.
C8_PollLoop ==
    /\ [][(pc = "loop" /\ run # NoRun /\ pc' # pc) =>
            /\ (pc' = "poll") = (run.status \in PollingStatuses)
            /\ (pc' = "fetch") = (run.status \notin PollingStatuses)]_vars
    /\ [][(pc' = "loop" /\ pc # "loop") => pc \in {"create_run", "sleep"}]_vars
    /\ [][(pc' = "poll" /\ pc # "poll") => pc = "loop"]_vars
    /\ []((AfterReturn /\ run # NoRun /\ run.status \in PollingStatuses) =>
            /\ failure = ApiError
            /\ response = <<ErrorText(ApiError), <<>>, <<>>>>)
    /\ (pc # "idle") ~> (pc = "idle")

\* a call returned normally after polling the run to completion through a tool step
C8_Witness ==
    /\ AfterReturn
    /\ failure = "none"
    /\ raSeen = 1
    /\ run.status = "completed"

\* C9: when the polled run ended failed, cancelled or expired without posting an
\* assistant message, the call returns 'Error: No assistant response' with empty
\* lists, and so nothing of the user's message or of an earlier turn.
C9_FailedRunGivesNoResponse ==
    (/\ AfterReturn
     /\ failure = "none"
     /\ run # NoRun
     /\ run.status \in FailedStatuses
     /\ ~runs[run.id].posted)
        => response = <<NoResponseText, <<>>, <<>>>>

\* the roles of the turns the chat inputs ins[1..n] leave when all are finished
RECURSIVE ExpectedRoles(_, _)
ExpectedRoles(ins, n) ==
    IF n = 0 THEN <<>>
    ELSE ExpectedRoles(ins, n - 1)
            \o (IF ins[n].hadId THEN <<"user", "assistant">> ELSE <<"user">>)

\* a is a subsequence of b
RECURSIVE IsSubseq(_, _)
IsSubseq(a, b) ==
    IF a = <<>> THEN TRUE
    ELSE IF b = <<>> THEN FALSE
    ELSE IF Head(a) = Head(b) THEN IsSubseq(Tail(a), Tail(b))
    ELSE IsSubseq(a, Tail(b))

Roles(ms) == [i \in 1..Len(ms) |-> ms[i].role]
UserTurns(ms) == SelectSeq(ms, LAMBDA m : m.role = "user")
LocalUserTexts == [i \in 1..Len(UserTurns(messages)) |-> UserTurns(messages)[i].content[1]]
ThreadUserTexts ==
    [i \in 1..Len(UserTurns(thread_msgs)) |-> UserTurns(thread_msgs)[i].content[1].value]

\* C10: a chat input without an assistant identifier appends one user turn and
\* touches nothing of the service; one with an identifier appends one user turn
\* and then one assistant turn; the thread's user messages are a subsequence of the
\* local user turns; turns are only ever appended.
C10_ChatTurns ==
    /\ [](/\ Roles(messages) =
                IF pc = "idle" THEN ExpectedRoles(inputs, Len(inputs))
                ELSE ExpectedRoles(inputs, Len(inputs) - 1) \o <<"user">>
          /\ LocalUserTexts = [i \in 1..Len(inputs) |-> inputs[i].prompt[1]]
          /\ IsSubseq(ThreadUserTexts, LocalUserTexts))
    /\ [][\/ messages' = messages
          \/ /\ Len(messages') = Len(messages) + 1
             /\ SubSeq(messages', 1, Len(messages)) = messages]_vars
    /\ [][(Len(inputs') > Len(inputs) /\ ~inputs'[Len(inputs')].hadId) =>
            /\ messages' = Append(messages, [role |-> "user",
                                             content |-> inputs'[Len(inputs')].prompt])
            /\ pc' = "idle"
            /\ UNCHANGED <<remoteVars, apiThreadIds>>]_vars

\* a chat input without an identifier, then one with an identifier, both finished
C10_Witness ==
    /\ pc = "idle"
    /\ Len(inputs) = 2
    /\ ~inputs[1].hadId
    /\ inputs[2].hadId
    /\ Roles(messages) = <<"user", "user", "assistant">>
    /\ ThreadUserTexts = <<inputs[2].prompt[1]>>
====
